---- MODULE Spec2Model ----
(***************************************************************************)
(* Model of miniflux-archiver/main.py: the rule-driven archiver that pages *)
(* through the unread entries of a Miniflux server and marks the entries   *)
(* matched by a configured rule as read.                                   *)
(* A second, independent part models send_to_readwise_api of               *)
(* manning-to-readwise/main.py, which posts highlights in batches.         *)
(*                                                                         *)
(* Encoding of Python values:                                              *)
(*   - a str is a sequence of one-character strings;                       *)
(*   - a dict is a record; a missing key is a missing field, so            *)
(*     d.get(k, default) is Get(d, k, default);                            *)
(*   - an Optional dataclass field that is None is a missing field of the  *)
(*     rule record;                                                        *)
(*   - a datetime is a number of clock ticks, TicksPerDay ticks to a day;  *)
(*   - a raised exception is the name of its class.                        *)
(***************************************************************************)
EXTENDS Integers, Sequences, FiniteSets, TLC

VARIABLES
    unread,         \* server: the unread entries, in the order the API lists them
    config,         \* the "rules" list of the configuration file (raw dicts)
    plan,           \* how many times the program is to be run
    now,            \* the wall clock, in ticks
    externals,      \* how many changes other clients have made to the server
    pc,             \* where the process is
    dry_run,        \* Archiver.dry_run
    rules,          \* Archiver.rules
    feed_names,     \* Archiver.feed_names
    total_entries,  \* run: total_entries
    offset,         \* run: offset of the for loop
    entries,        \* run: entries['entries'] of the current page
    idx,            \* run: position of the inner for loop in the page (1-based)
    to_archive,     \* run: to_archive
    will_log,       \* the "Will archive" lines of the current page
    clock_read,     \* history: the clock each entry of the current page was judged at
    total_archived, \* run: total_archived
    error,          \* the exception that ended the process, "" when none
    calls,          \* history: the calls the process has made to the Miniflux client
    started,        \* history: the unread entries when the process started
    reports,        \* history: one record per finished process
    items,          \* send_to_readwise_api: items
    per_request,    \* send_to_readwise_api: the batch_size argument
    send_pc,        \* where send_to_readwise_api is
    range_next,     \* the next value of range(0, len(items), batch_size)
    send_i,         \* the loop variable i
    slept,          \* how many times time.sleep was called
    posts,          \* history: the batches posted and the status of each answer
    returned        \* the value send_to_readwise_api returned, "" before it returns

vars == <<unread, config, plan, now, externals, pc, dry_run, rules, feed_names,
          total_entries, offset, entries, idx, to_archive, will_log, clock_read,
          total_archived, error, calls, started, reports,
          items, per_request, send_pc, range_next, send_i, slept, posts, returned>>

\* the state of send_to_readwise_api
send_vars == <<items, per_request, send_pc, range_next, send_i, slept, posts, returned>>

\* the state of the archiver and of its server
archiver_vars == <<unread, config, plan, now, externals, pc, dry_run, rules,
                   feed_names, total_entries, offset, entries, idx, to_archive,
                   will_log, clock_read, total_archived, error, calls, started,
                   reports>>

(***************************************************************************)
(* Bounds of the model.                                                    *)
(***************************************************************************)
\* batch_size is 100 in run(); the model pages in strides of this size
batch_size == 2
\* longest list of unread entries a behaviour starts from
MaxEntries == 4
\* most processes run one after the other
MaxRuns == 2
\* last value of the clock
MaxNow == 4
\* most changes made by other clients
MaxExternal == 1
\* clock ticks in one day
TicksPerDay == 2

(***************************************************************************)
(* Python helpers.                                                         *)
(***************************************************************************)
Get(d, k, default) == IF k \in DOMAIN d THEN d[k] ELSE default

\* bool(x) of an Optional[List]: None and [] are falsy
Truthy(rule, k) == k \in DOMAIN rule /\ Len(rule[k]) > 0

LowerChar(c) ==
    CASE c = "A" -> "a"
      [] c = "B" -> "b"
      [] c = "T" -> "t"
      [] OTHER -> c

\* str.lower()
Lower(s) == [i \in 1..Len(s) |-> LowerChar(s[i])]

\* the str operator `sub in s`
Contains(sub, s) ==
    \E i \in 0..(Len(s) - Len(sub)) : SubSeq(s, i + 1, i + Len(sub)) = sub

\* a parser that reads any text as some date
parse_date_lenient(s) == [raised |-> FALSE, value |-> s.ticks]

\* dateutil.parser.parse: a timestamp it cannot read raises ParserError
parse_date(s) ==
    IF s.fmt = "iso" THEN [raised |-> FALSE, value |-> s.ticks]
                     ELSE [raised |-> TRUE, value |-> 0]

\* timedelta(days=n)
timedelta(days) == days * TicksPerDay

(***************************************************************************)
(* ArchiveRule.                                                            *)
(***************************************************************************)
\* __post_init__ without the test of lines 30-32
rule_valid_lax(rule) == TRUE

\* __post_init__: the rule is accepted
rule_valid(rule) == "age_days" \in DOMAIN rule \/ "reading_time_min" \in DOMAIN rule

(***************************************************************************)
(* Archiver.should_archive.                                                *)
(***************************************************************************)
\* line 62: the entry is newer than the age limit
newer_than_limit(entry_date, age_limit) == entry_date > age_limit

\* line 68 with > for >=
too_long_strict(reading_time, reading_time_min) == reading_time > reading_time_min

\* line 68: the entry takes too long to read
too_long(reading_time, reading_time_min) == reading_time >= reading_time_min

\* self.feed_names.get(entry.get('feed_id'), '').lower()
feed_name_of(entry, names) == Lower(Get(names, entry.feed_id, <<>>))

\* any(feed.lower() in feed_name for feed in patterns)
any_in_name(patterns, feed_name) ==
    \E i \in 1..Len(patterns) : Contains(Lower(patterns[i]), feed_name)

\* line 73. The argument of any() is the single expression
\*     cat.lower() in (<generator ... for cat in rule.categories>)
\* whose left operand is evaluated first, and `cat` is bound only inside the
\* generator: the lookup raises NameError whatever the entry and the rule hold.
category_check(entry, rule) == "NameError"

\* line 84 without the .lower() of the pattern
excluded_case_sensitive(entry, rule, names) ==
    \E i \in 1..Len(rule.exclude_feeds) :
        Contains(rule.exclude_feeds[i], feed_name_of(entry, names))

\* line 84: the feed is excluded
excluded(entry, rule, names) ==
    any_in_name(rule.exclude_feeds, feed_name_of(entry, names))

\* "True", "False", or the class of the exception raised
should_archive(entry, rule, names, clock) ==
    IF "age_days" \in DOMAIN rule /\ parse_date(entry.published_at).raised
    THEN "ParserError"
    ELSE IF "age_days" \in DOMAIN rule
            /\ newer_than_limit(parse_date(entry.published_at).value,
                                clock - timedelta(rule.age_days))
    THEN "False"
    ELSE IF "reading_time_min" \in DOMAIN rule
            /\ too_long(Get(entry, "reading_time", 0), rule.reading_time_min)
    THEN "False"
    ELSE IF Truthy(rule, "categories")
    THEN category_check(entry, rule)
    ELSE IF Truthy(rule, "feeds")
            /\ ~any_in_name(rule.feeds, feed_name_of(entry, names))
    THEN "False"
    ELSE IF Truthy(rule, "exclude_feeds") /\ excluded(entry, rule, names)
    THEN "False"
    ELSE "True"

(***************************************************************************)
(* Archiver.run: the body of the loop over one entry (lines 109-123).      *)
(***************************************************************************)
\* lines 113-119: the reason logged with the entry
reason_of(entry, rule, clock) ==
    IF "age_days" \in DOMAIN rule
    THEN [by |-> "age",
          value |-> (clock - parse_date(entry.published_at).value) \div TicksPerDay,
          threshold |-> rule.age_days]
    ELSE IF "reading_time_min" \in DOMAIN rule
    THEN [by |-> "reading_time",
          value |-> Get(entry, "reading_time", 0),
          threshold |-> rule.reading_time_min]
    ELSE [by |-> "unknown reason", value |-> 0, threshold |-> 0]

NoReason == [by |-> "", value |-> 0, threshold |-> 0]

\* the rules from position k on, in order, up to the first that matches or raises
RECURSIVE rule_loop(_, _, _, _, _)
rule_loop(entry, rs, k, names, clock) ==
    IF k > Len(rs)
    THEN [kind |-> "keep", rule |-> 0, reason |-> NoReason]
    ELSE LET r == should_archive(entry, rs[k], names, clock) IN
         IF r = "False" THEN rule_loop(entry, rs, k + 1, names, clock)
         ELSE IF r = "True"
         THEN [kind |-> "archive", rule |-> k, reason |-> reason_of(entry, rs[k], clock)]
         ELSE [kind |-> r, rule |-> k, reason |-> NoReason]

(***************************************************************************)
(* The Miniflux server behind miniflux.Client, as run() sees it.           *)
(***************************************************************************)
\* the feeds of the server, as get_feeds() lists them
ServiceFeeds ==
    << [id |-> 1, title |-> <<"T", "a">>],
       [id |-> 2, title |-> <<"b">>] >>

Min(a, b) == IF a < b THEN a ELSE b

\* get_entries(status="unread", limit, offset): the slice of the unread entries
get_entries(limit, off) ==
    [total |-> Len(unread),
     entries |-> SubSeq(unread, off + 1, Min(off + limit, Len(unread)))]

RECURSIVE without(_, _)
without(seq, ids) ==
    IF seq = <<>> THEN <<>>
    ELSE IF Head(seq).id \in ids THEN without(Tail(seq), ids)
    ELSE <<Head(seq)>> \o without(Tail(seq), ids)

Range(seq) == {seq[i] : i \in 1..Len(seq)}

\* update_entries(entry_ids, status="read"): the entries leave the unread list
update_entries(ids) == without(unread, Range(ids))

\* one record of the history of client calls
Call(op, off, limit, ids, ok) ==
    [op |-> op, offset |-> off, limit |-> limit,
     ids |-> ids, ok |-> ok]

\* one record of the history of finished processes
Report(dry, outcome, total) ==
    [dry_run |-> dry, outcome |-> outcome, total |-> total, started |-> started]

(***************************************************************************)
(* main().                                                                 *)
(***************************************************************************)
\* the process ends with an exception: main logs it and raises it again
Fail(exc) ==
    /\ pc' = "failed"
    /\ error' = exc
    /\ reports' = Append(reports, Report(dry_run, exc, total_archived))

\* the process ends after the summary line of run()
Finish(total) ==
    /\ pc' = "done"
    /\ error' = ""
    /\ reports' = Append(reports, Report(dry_run, "done", total))

\* load_config: every rule dict becomes an ArchiveRule
load_config_ok(cfg) == \A i \in 1..Len(cfg) : rule_valid(cfg[i])

\* Archiver.__init__: the feed directory, from one get_feeds() call
build_feed_names(feeds) ==
    [i \in {feeds[k].id : k \in 1..Len(feeds)} |->
        (CHOOSE f \in Range(feeds) : f.id = i).title]

\* main(), from the command line to the constructed Archiver
Main ==
    /\ pc \in {"idle", "done", "failed"}
    /\ Len(reports) < plan
    /\ started' = unread
    /\ total_entries' = 0 /\ offset' = 0 /\ entries' = <<>> /\ idx' = 1
    /\ to_archive' = <<>> /\ will_log' = <<>> /\ total_archived' = 0
    /\ clock_read' = <<>>
    /\ \E flag \in BOOLEAN :
       IF ~load_config_ok(config)
       THEN /\ pc' = "failed"
            /\ error' = "ValueError"
            /\ reports' = Append(reports,
                   [dry_run |-> flag, outcome |-> "ValueError", total |-> 0,
                    started |-> started'])
            /\ calls' = <<>>
            /\ UNCHANGED <<dry_run, rules, feed_names>>
       ELSE \E ok \in BOOLEAN :
            /\ dry_run' = flag
            /\ rules' = config
            /\ calls' = <<Call("get_feeds", 0, 0, <<>>, ok)>>
            /\ IF ok
               THEN /\ feed_names' = build_feed_names(ServiceFeeds)
                    /\ pc' = "probe"
                    /\ error' = ""
                    /\ UNCHANGED reports
               ELSE /\ pc' = "failed"
                    /\ error' = "ServiceError"
                    /\ reports' = Append(reports,
                           [dry_run |-> flag, outcome |-> "ServiceError",
                            total |-> 0, started |-> started'])
                    /\ UNCHANGED feed_names
    /\ UNCHANGED send_vars
    /\ UNCHANGED <<unread, config, plan, now, externals>>

(***************************************************************************)
(* Archiver.run.                                                           *)
(***************************************************************************)
\* lines 98-99: the limit=1 call that reads the total
Probe ==
    /\ pc = "probe"
    /\ \E ok \in BOOLEAN :
       /\ calls' = Append(calls, Call("get_entries", 0, 1, <<>>, ok))
       /\ IF ok
          THEN /\ total_entries' = get_entries(1, 0).total
               /\ offset' = 0
               /\ IF 0 < total_entries'
                  THEN pc' = "fetch" /\ UNCHANGED <<error, reports>>
                  ELSE Finish(total_archived)
          ELSE Fail("ServiceError") /\ UNCHANGED <<total_entries, offset>>
    /\ UNCHANGED send_vars
    /\ UNCHANGED <<unread, config, plan, now, externals, dry_run, rules, feed_names,
                   entries, idx, to_archive, will_log, clock_read, total_archived,
                   started>>

\* lines 103-107 without the break on an empty page
FetchPageNoBreak ==
    /\ pc = "fetch"
    /\ \E ok \in BOOLEAN :
       /\ calls' = Append(calls, Call("get_entries", offset, batch_size, <<>>, ok))
       /\ IF ~ok
          THEN /\ pc' = "failed"
               /\ error' = "ServiceError"
               /\ reports' = Append(reports,
                      [dry_run |-> dry_run, outcome |-> "ServiceError",
                       total |-> total_archived, started |-> started])
               /\ UNCHANGED <<entries, idx, to_archive, will_log, clock_read>>
          ELSE /\ entries' = get_entries(batch_size, offset).entries
               /\ to_archive' = <<>>
               /\ will_log' = <<>>
               /\ clock_read' = <<>>
               /\ idx' = 1
               /\ pc' = IF entries' = <<>> THEN "page_end" ELSE "eval"
               /\ UNCHANGED <<error, reports>>
    /\ UNCHANGED send_vars
    /\ UNCHANGED <<unread, config, plan, now, externals, dry_run, rules, feed_names,
                   total_entries, offset, total_archived, started>>

\* lines 103-107 with the feed directory listed again before every page
FetchPageRelist ==
    /\ pc = "fetch"
    /\ \E ok \in BOOLEAN :
       /\ calls' = calls \o << Call("get_feeds", 0, 0, <<>>, TRUE),
                               Call("get_entries", offset, batch_size, <<>>, ok) >>
       /\ feed_names' = build_feed_names(ServiceFeeds)
       /\ IF ~ok
          THEN /\ pc' = "failed"
               /\ error' = "ServiceError"
               /\ reports' = Append(reports,
                      [dry_run |-> dry_run, outcome |-> "ServiceError",
                       total |-> total_archived, started |-> started])
               /\ UNCHANGED <<entries, idx, to_archive, will_log, clock_read>>
          ELSE /\ entries' = get_entries(batch_size, offset).entries
               /\ IF entries' = <<>>
                  THEN /\ pc' = "done"
                       /\ error' = ""
                       /\ reports' = Append(reports,
                              [dry_run |-> dry_run, outcome |-> "done",
                               total |-> total_archived, started |-> started])
                       /\ UNCHANGED <<idx, to_archive, will_log, clock_read>>
                  ELSE /\ to_archive' = <<>>
                       /\ will_log' = <<>>
                       /\ clock_read' = <<>>
                       /\ idx' = 1
                       /\ pc' = "eval"
                       /\ UNCHANGED <<error, reports>>
    /\ UNCHANGED send_vars
    /\ UNCHANGED <<unread, config, plan, now, externals, dry_run, rules,
                   total_entries, offset, total_archived, started>>

\* lines 103-107: one page is fetched; an empty page ends the loop
FetchPage ==
    /\ pc = "fetch"
    /\ \E ok \in BOOLEAN :
       /\ calls' = Append(calls, Call("get_entries", offset, batch_size, <<>>, ok))
       /\ IF ~ok
          THEN /\ Fail("ServiceError")
               /\ UNCHANGED <<entries, idx, to_archive, will_log, clock_read>>
          ELSE /\ entries' = get_entries(batch_size, offset).entries
               /\ IF entries' = <<>>
                  THEN /\ Finish(total_archived)
                       /\ UNCHANGED <<idx, to_archive, will_log, clock_read>>
                  ELSE /\ to_archive' = <<>>
                       /\ will_log' = <<>>
                       /\ clock_read' = <<>>
                       /\ idx' = 1
                       /\ pc' = "eval"
                       /\ UNCHANGED <<error, reports>>
    /\ UNCHANGED send_vars
    /\ UNCHANGED <<unread, config, plan, now, externals, dry_run, rules, feed_names,
                   total_entries, offset, total_archived, started>>

\* lines 108-123 without the break of line 123: every rule is tried, and the
\* entry is appended once for each rule it satisfies
EvalEntryNoBreak ==
    /\ pc = "eval"
    /\ idx <= Len(entries)
    /\ LET entry == entries[idx]
           result == [k \in 1..Len(rules) |->
                         should_archive(entry, rules[k], feed_names, now)]
           raised == {k \in 1..Len(rules) : result[k] \notin {"True", "False"}}
           hits == Cardinality({k \in 1..Len(rules) : result[k] = "True"})
       IN  IF raised # {}
           THEN /\ pc' = "failed"
                /\ error' = result[CHOOSE k \in raised : \A m \in raised : k <= m]
                /\ reports' = Append(reports,
                       [dry_run |-> dry_run, outcome |-> error',
                        total |-> total_archived, started |-> started])
                /\ UNCHANGED <<idx, to_archive, will_log, clock_read>>
           ELSE /\ to_archive' = to_archive \o [j \in 1..hits |-> entry.id]
                /\ will_log' = will_log \o
                       [j \in 1..hits |-> [id |-> entry.id, rule |-> 0,
                                           reason |-> NoReason]]
                /\ clock_read' = Append(clock_read, now)
                /\ idx' = idx + 1
                /\ pc' = IF idx' > Len(entries) THEN "page_end" ELSE "eval"
                /\ UNCHANGED <<error, reports>>
    /\ UNCHANGED send_vars
    /\ UNCHANGED <<unread, config, plan, now, externals, dry_run, rules, feed_names,
                   total_entries, offset, entries, total_archived, calls, started>>

\* lines 108-123: the next entry of the page against the rules, in order
EvalEntry ==
    /\ pc = "eval"
    /\ idx <= Len(entries)
    /\ LET entry == entries[idx]
           v == rule_loop(entry, rules, 1, feed_names, now)
       IN  IF v.kind \notin {"keep", "archive"}
           THEN Fail(v.kind) /\ UNCHANGED <<idx, to_archive, will_log, clock_read>>
           ELSE /\ to_archive' = IF v.kind = "archive"
                                 THEN Append(to_archive, entry.id) ELSE to_archive
                /\ will_log' = IF v.kind = "archive"
                               THEN Append(will_log, [id |-> entry.id, rule |-> v.rule,
                                                      reason |-> v.reason])
                               ELSE will_log
                /\ clock_read' = Append(clock_read, now)
                /\ idx' = idx + 1
                /\ pc' = IF idx' > Len(entries) THEN "page_end" ELSE "eval"
                /\ UNCHANGED <<error, reports>>
    /\ UNCHANGED send_vars
    /\ UNCHANGED <<unread, config, plan, now, externals, dry_run, rules, feed_names,
                   total_entries, offset, entries, total_archived, calls, started>>

\* line 125 with the dry-run test missing
mutates_always(dry) == TRUE

\* line 125 with the dry-run test inverted
mutates_inverted(dry) == dry

\* line 125: the page's ids are sent to the server
mutates(dry) == ~dry

\* line 130
new_total(total, ids) == total + Len(ids)

\* line 102 with the bound of the range read from the server at every step
more_pages_live(off, total) == off < Len(unread)

\* line 102: the loop goes on to the next offset
more_pages(off, total) == off < total

\* line 102 with the stride of the range left out
next_offset_by_one(off) == off + 1

\* line 102: range(0, total_entries, batch_size) steps by batch_size
next_offset(off) == off + batch_size

\* lines 124-130 with the failure of update_entries caught and passed over
PageEndSwallow ==
    /\ pc = "page_end"
    /\ \E ok \in BOOLEAN :
       /\ IF to_archive # <<>> /\ ~dry_run
          THEN /\ calls' = Append(calls,
                       Call("update_entries", offset, 0, to_archive, ok))
               /\ unread' = IF ok THEN update_entries(to_archive) ELSE unread
          ELSE /\ ok
               /\ UNCHANGED <<calls, unread>>
       /\ total_archived' = total_archived + Len(to_archive)
       /\ offset' = offset + batch_size
       /\ IF offset' < total_entries
          THEN pc' = "fetch" /\ UNCHANGED <<error, reports>>
          ELSE /\ pc' = "done"
               /\ error' = ""
               /\ reports' = Append(reports,
                      [dry_run |-> dry_run, outcome |-> "done",
                       total |-> total_archived', started |-> started])
    /\ UNCHANGED send_vars
    /\ UNCHANGED <<config, plan, now, externals, dry_run, rules, feed_names,
                   total_entries, entries, idx, to_archive, will_log, clock_read,
                   started>>

\* lines 124-130, and the step of the for loop to the next offset
PageEnd ==
    /\ pc = "page_end"
    /\ \E ok \in BOOLEAN :
       /\ IF to_archive # <<>> /\ mutates(dry_run)
          THEN /\ calls' = Append(calls,
                       Call("update_entries", offset, 0, to_archive, ok))
               /\ unread' = IF ok THEN update_entries(to_archive) ELSE unread
          ELSE /\ ok
               /\ UNCHANGED <<calls, unread>>
       /\ IF ~ok
          THEN Fail("ServiceError") /\ UNCHANGED <<total_archived, offset>>
          ELSE /\ total_archived' = IF to_archive # <<>>
                                    THEN new_total(total_archived, to_archive)
                                    ELSE total_archived
               /\ offset' = next_offset(offset)
               /\ IF more_pages(offset', total_entries)
                  THEN pc' = "fetch" /\ UNCHANGED <<error, reports>>
                  ELSE Finish(total_archived')
    /\ UNCHANGED send_vars
    /\ UNCHANGED <<config, plan, now, externals, dry_run, rules, feed_names,
                   total_entries, entries, idx, to_archive, will_log, clock_read,
                   started>>

(***************************************************************************)
(* The environment: other clients of the server, and the clock.            *)
(***************************************************************************)
\* an entry another client adds to the unread list
NewEntry ==
    [id |-> 10 + externals,
     published_at |-> [fmt |-> "iso", ticks |-> 0],
     reading_time |-> 1,
     feed_id |-> 2,
     feed |-> [title |-> <<"b">>]]

\* another client marks an unread entry read, or a new entry arrives. The
\* process sees the server only in its calls, so a change made while a page is
\* evaluated is the same change made just before the next call.
ExternalMutate ==
    /\ externals < MaxExternal
    /\ pc \in {"probe", "fetch", "page_end"}
    /\ externals' = externals + 1
    /\ \/ \E i \in 1..Len(unread) : unread' = without(unread, {unread[i].id})
       \/ unread' = <<NewEntry>> \o unread
    /\ UNCHANGED send_vars
    /\ UNCHANGED <<config, plan, now, pc, dry_run, rules, feed_names, total_entries,
                   offset, entries, idx, to_archive, will_log, clock_read,
                   total_archived, error, calls, started, reports>>

\* time passes. The clock is read only while entries are evaluated.
Tick ==
    /\ now < MaxNow
    /\ pc = "eval"
    /\ now' = now + 1
    /\ UNCHANGED send_vars
    /\ UNCHANGED <<unread, config, plan, externals, pc, dry_run, rules, feed_names,
                   total_entries, offset, entries, idx, to_archive, will_log,
                   clock_read, total_archived, error, calls, started, reports>>

(***************************************************************************)
(* Inputs: the entries on the server, and the configured rules.            *)
(***************************************************************************)
Iso(t) == [fmt |-> "iso", ticks |-> t]
Junk == [fmt |-> "junk", ticks |-> 0]

\* the clock when a behaviour starts
StartNow == MaxNow - 1

\* an entry published long ago, of a feed the directory knows as "Ta"
OldEntry ==
    [published_at |-> Iso(0), reading_time |-> 2, feed_id |-> 1,
     feed |-> [title |-> <<"T", "a">>, category |-> <<"A", "b">>]]

\* an entry published one tick ago, of the feed "b"
FreshEntry ==
    [published_at |-> Iso(StartNow - 1), reading_time |-> 2, feed_id |-> 2,
     feed |-> [title |-> <<"b">>]]

\* a short entry whose timestamp does not parse
JunkEntry ==
    [published_at |-> Junk, reading_time |-> 1, feed_id |-> 2,
     feed |-> [title |-> <<"b">>]]

Prototypes == {OldEntry, FreshEntry, JunkEntry}

\* the entry of prototype p with identifier i
WithId(p, i) == ("id" :> i) @@ p

\* the lists of at most n unread entries, identifiers 1, 2, ... in list order
Snapshots(protos, n) ==
    UNION {{[i \in 1..k |-> WithId(f[i], i)] : f \in [1..k -> protos]} : k \in 0..n}

\* the rule lists the pagination behaviours run under
Configs ==
    { << [age_days |-> 1] >>,
      << [reading_time_min |-> 2] >>,
      << [reading_time_min |-> 2], [age_days |-> 1] >>,
      << [age_days |-> 1], [feeds |-> << <<"t">> >>] >> }

Idle ==
    /\ externals = 0
    /\ pc = "idle"
    /\ dry_run = FALSE
    /\ rules = <<>>
    /\ feed_names = <<>>
    /\ total_entries = 0
    /\ offset = 0
    /\ entries = <<>>
    /\ idx = 1
    /\ to_archive = <<>>
    /\ will_log = <<>>
    /\ clock_read = <<>>
    /\ total_archived = 0
    /\ error = ""
    /\ calls = <<>>
    /\ started = unread
    /\ reports = <<>>

\* send_to_readwise_api is not called
SendIdle ==
    /\ items = <<>>
    /\ per_request = 1
    /\ send_pc = "idle"
    /\ range_next = 0
    /\ send_i = 0
    /\ slept = 0
    /\ posts = <<>>
    /\ returned = ""

Init ==
    /\ unread \in Snapshots(Prototypes, MaxEntries)
    /\ config \in Configs
    /\ plan = 1
    /\ now = StartNow
    /\ Idle
    /\ SendIdle

Next ==
    \/ Main
    \/ Probe
    \/ FetchPage
    \/ EvalEntry
    \/ PageEnd
    \/ ExternalMutate
    \/ Tick

Spec == Init /\ [][Next]_vars

(***************************************************************************)
(* The program run several times in a row against a server nobody else     *)
(* changes: a rehearsal with --dry-run and the run after it.               *)
(***************************************************************************)
InitTwice ==
    /\ unread \in Snapshots(Prototypes, MaxEntries)
    /\ config \in Configs
    /\ plan = MaxRuns
    /\ now = StartNow
    /\ Idle
    /\ SendIdle

NextQuiet ==
    \/ Main
    \/ Probe
    \/ FetchPage
    \/ EvalEntry
    \/ PageEnd
    \/ Tick

SpecTwice == InitTwice /\ [][NextQuiet]_vars

(***************************************************************************)
(* The decision engine: one unread entry, drawn from every combination of  *)
(* the fields the rules read, against one rule or a pair of rules.         *)
(***************************************************************************)
Timestamps == {Iso(t) : t \in 0..(StartNow - 1)} \cup {Junk}

FeedDicts ==
    { [title |-> <<"T", "a">>, category |-> <<"T", "a", "b">>],
      [title |-> <<"T", "a">>] }

EntryUniverse ==
    {[published_at |-> p, feed_id |-> f, feed |-> d] :
        p \in Timestamps, f \in 1..3, d \in FeedDicts}
    \cup
    {[published_at |-> p, reading_time |-> r, feed_id |-> f, feed |-> d] :
        p \in Timestamps, r \in 1..2, f \in 1..3, d \in FeedDicts}

\* the conditions a rule carries: age_days, reading_time_min, or both
Thresholds ==
    { [age_days |-> 1], [reading_time_min |-> 2],
      [age_days |-> 1, reading_time_min |-> 2] }

\* the filters a rule carries
Filters ==
    { <<>>,
      [categories |-> << <<"A">> >>],
      [categories |-> <<>>, feeds |-> << <<"A">> >>],
      [feeds |-> << <<"x">>, <<"B">> >>],
      [exclude_feeds |-> << <<"A">> >>],
      [exclude_feeds |-> << <<"x">>, <<"b">> >>, feeds |-> << <<"t">> >>],
      [categories |-> << <<"b">>, <<"x">> >>, exclude_feeds |-> << <<"B">> >>] }

RuleUniverse == {t @@ f : t \in Thresholds, f \in Filters}

\* the rules that rule pairs are made of
PairRules ==
    { [age_days |-> 1],
      [reading_time_min |-> 2],
      [age_days |-> 1, categories |-> << <<"A">> >>],
      [reading_time_min |-> 2, exclude_feeds |-> << <<"A">> >>] }

RuleLists ==
    {<<r>> : r \in RuleUniverse} \cup {<<r, q>> : r \in PairRules, q \in PairRules}

InitEval ==
    /\ unread \in {<<WithId(e, 1)>> : e \in EntryUniverse}
    /\ config \in RuleLists
    /\ plan = 1
    /\ now = StartNow
    /\ Idle
    /\ SendIdle

SpecEval == InitEval /\ [][NextQuiet]_vars


(***************************************************************************)
(* manning-to-readwise/main.py: send_to_readwise_api. The items are        *)
(* numbered 1, 2, ...; what they hold does not matter to the loop.         *)
(***************************************************************************)
\* most items handed to send_to_readwise_api
MaxItems == 4
\* largest batch_size argument
MaxPerRequest == 2

\* what requests.post can come back with: an answer with its status code and
\* its Retry-After header (absent, a number of seconds, or an HTTP date), or
\* a RequestException
Answers ==
    { [raised |-> FALSE, status |-> 200, retry_after |-> "absent"],
      [raised |-> FALSE, status |-> 429, retry_after |-> "absent"],
      [raised |-> FALSE, status |-> 429, retry_after |-> "seconds"],
      [raised |-> FALSE, status |-> 429, retry_after |-> "date"],
      [raised |-> FALSE, status |-> 500, retry_after |-> "absent"],
      [raised |-> TRUE, status |-> 0, retry_after |-> "absent"] }

\* line 105: items[i:i + batch_size]
batch_at(seq, at, n) == SubSeq(seq, at + 1, Min(at + n, Len(seq)))

\* lines 95-104: the function is called; the range of line 104 is built
SendCall ==
    /\ send_pc = "idle"
    /\ send_pc' = "loop"
    /\ range_next' = 0
    /\ UNCHANGED <<items, per_request, send_i, slept, posts, returned>>
    /\ UNCHANGED archiver_vars

\* lines 104-137: one iteration of the for loop. The for statement assigns i
\* from the range, whatever the body did to i in the iteration before.
SendBatch ==
    /\ send_pc = "loop"
    /\ range_next < Len(items)
    /\ range_next' = range_next + per_request
    /\ \E answer \in Answers :
       /\ posts' = Append(posts, [batch |-> batch_at(items, range_next, per_request),
                                  status |-> answer.status])
       /\ IF answer.raised
          THEN /\ returned' = "False"
               /\ send_pc' = "returned"
               /\ send_i' = range_next
               /\ UNCHANGED slept
          ELSE IF answer.status = 200
          THEN /\ send_i' = range_next
               /\ UNCHANGED <<send_pc, slept, returned>>
          ELSE IF answer.status = 429
          THEN IF answer.retry_after = "date"
               THEN /\ send_pc' = "ValueError"
                    /\ send_i' = range_next
                    /\ UNCHANGED <<slept, returned>>
               ELSE /\ slept' = slept + 1
                    /\ send_i' = range_next - per_request
                    /\ UNCHANGED <<send_pc, returned>>
          ELSE /\ returned' = "False"
               /\ send_pc' = "returned"
               /\ send_i' = range_next
               /\ UNCHANGED slept
    /\ UNCHANGED <<items, per_request>>
    /\ UNCHANGED archiver_vars

\* line 139: the range is exhausted
SendReturn ==
    /\ send_pc = "loop"
    /\ range_next >= Len(items)
    /\ returned' = "True"
    /\ send_pc' = "returned"
    /\ UNCHANGED <<items, per_request, range_next, send_i, slept, posts>>
    /\ UNCHANGED archiver_vars

InitSend ==
    /\ unread = <<>>
    /\ config = <<>>
    /\ plan = 0
    /\ now = StartNow
    /\ Idle
    /\ items \in {[k \in 1..n |-> k] : n \in 0..MaxItems}
    /\ per_request \in 1..MaxPerRequest
    /\ send_pc = "idle"
    /\ range_next = 0
    /\ send_i = 0
    /\ slept = 0
    /\ posts = <<>>
    /\ returned = ""

NextSend ==
    \/ SendCall
    \/ SendBatch
    \/ SendReturn

SpecSend == InitSend /\ [][NextSend]_vars

(***************************************************************************)
(* Vocabulary of the properties.                                           *)
(***************************************************************************)
Last(seq) == seq[Len(seq)]

Ids(seq) == {seq[i].id : i \in 1..Len(seq)}

\* the entry at position i of the current page has been through the rules
Evaluated(i) == i \in 1..Len(entries) /\ idx > i

\* the entry at position i has been through the rules, or raised in them
Attempted(i) ==
    \/ Evaluated(i)
    \/ /\ i \in 1..Len(entries) /\ idx = i
       /\ pc = "failed" /\ error \in {"ParserError", "NameError"}

\* the entry at position i of the current page was collected into to_archive
Archived(i) == entries[i].id \in Range(to_archive)

\* the rule without one of its fields
Without(rule, k) == [f \in DOMAIN rule \ {k} |-> rule[f]]

IsUpdate(c) == c.op = "update_entries"

(***************************************************************************)
(* C1. For the same unread entries, feeds and rules, with no other client  *)
(* changing the server, no error and the same clock, a run with --dry-run  *)
(* and a run without it report the same total.                             *)
(***************************************************************************)
C1_DryRunTotalEqualsRealTotal ==
    \A i, j \in DOMAIN reports :
        ( /\ reports[i].dry_run /\ ~reports[j].dry_run
          /\ reports[i].outcome = "done" /\ reports[j].outcome = "done"
          /\ reports[i].started = reports[j].started
          /\ externals = 0 /\ now = StartNow )
        => reports[i].total = reports[j].total

(***************************************************************************)
(* C2. In a run with --dry-run no update_entries call is ever made, and    *)
(* the server is left alone, while the entries collected on each page are  *)
(* still added to the total.                                               *)
(***************************************************************************)
C2_DryRunNeverMutates ==
    /\ [](dry_run => \A i \in DOMAIN calls : ~IsUpdate(calls[i]))
    /\ [][(dry_run /\ pc = "page_end" /\ pc' # "page_end")
            => /\ unread' = unread
               /\ total_archived' = total_archived + Len(to_archive)]_vars

\* a dry run that finished having counted entries, without any update call
C2_Witness ==
    /\ dry_run /\ pc = "done" /\ total_archived > 0
    /\ \A i \in DOMAIN calls : ~IsUpdate(calls[i])
    /\ Ids(started) \subseteq Ids(unread)

(***************************************************************************)
(* C3. For a rule with only age_days = N, the entry is archived if and     *)
(* only if now - published_at is strictly greater than N days: an entry    *)
(* published exactly N days before now is kept.                            *)
(***************************************************************************)
OnlyAgeRule == Len(rules) = 1 /\ DOMAIN rules[1] = {"age_days"}

C3_ArchivedIffStrictlyOlder ==
    (OnlyAgeRule /\ Evaluated(1))
    => (Archived(1) <=>
          clock_read[1] - entries[1].published_at.ticks
              > rules[1].age_days * TicksPerDay)

(***************************************************************************)
(* C4. In a run without --dry-run, when the evaluation of a page ends: if  *)
(* entries of the page matched a rule, one update_entries call is made     *)
(* with exactly the ids of the entries of the page that match at least one *)
(* rule; if none matched, no call is made. No page gets two calls.         *)
(***************************************************************************)
\* the entry at position i of the page matches some rule, at the clock it was
\* judged at
MatchesSomeRule(i) ==
    \E k \in 1..Len(rules) :
        should_archive(entries[i], rules[k], feed_names, clock_read[i]) = "True"

MatchIds == {entries[i].id : i \in {j \in 1..Len(entries) : MatchesSomeRule(j)}}

C5_FailedUpdateAborts ==
    /\ [][(calls' # calls /\ IsUpdate(Last(calls')) /\ ~Last(calls').ok)
            => /\ pc' = "failed"
               /\ total_archived' = total_archived
               /\ unread' = unread
               /\ Last(reports').total = total_archived]_vars
    /\ [][pc = "failed"
            => /\ pc' = "failed"
               /\ calls' = calls
               /\ unread' = unread
               /\ total_archived' = total_archived]_vars
    /\ [](\A i \in DOMAIN calls :
            (IsUpdate(calls[i]) /\ calls[i].ok)
            => Range(calls[i].ids) \cap Ids(unread) = {})

\* the update of the second page failed after the first page was archived
C5_Witness ==
    /\ pc = "failed" /\ error = "ServiceError"
    /\ IsUpdate(Last(calls)) /\ ~Last(calls).ok
    /\ offset > 0 /\ total_archived > 0
    /\ Range(to_archive) \subseteq Ids(unread)
    /\ \E i \in DOMAIN calls : IsUpdate(calls[i]) /\ calls[i].ok

(***************************************************************************)
(* C6. An entry whose timestamp cannot be parsed is kept by a rule with    *)
(* age_days set, and the run goes on: it never ends on that entry.         *)
(***************************************************************************)
Unparseable(entry) == entry.published_at.fmt # "iso"

C6_UnparseableIsKept ==
    ~(pc = "failed" /\ error = "ParserError")

(***************************************************************************)
(* C6, as amended. Evaluating an entry whose timestamp cannot be parsed    *)
(* against a rule with age_days set raises ParserError, which nothing      *)
(* catches: the run aborts at once, the ids collected on that page are     *)
(* neither sent to update_entries nor counted, and no later entry or page  *)
(* is processed.                                                           *)
(***************************************************************************)
\* the rules that were applied to the evaluated entry at position i: all of
\* them if it was kept, those up to the first match if it was collected
RulesApplied(i) ==
    IF Archived(i)
    THEN 1..(CHOOSE k \in 1..Len(rules) :
                \E j \in DOMAIN will_log :
                    will_log[j].id = entries[i].id /\ will_log[j].rule = k)
    ELSE 1..Len(rules)

C6_UnparseableAborts ==
    /\ [](\A i \in 1..Len(entries) :
            (Evaluated(i) /\ Unparseable(entries[i]))
            => \A k \in RulesApplied(i) : "age_days" \notin DOMAIN rules[k])
    /\ []((pc = "failed" /\ error = "ParserError")
            => /\ Unparseable(entries[idx])
               /\ \A i \in DOMAIN calls :
                     IsUpdate(calls[i]) => calls[i].offset # offset
               /\ Last(reports).total = total_archived)
    /\ [][(pc = "eval" /\ pc' = "failed")
            => /\ total_archived' = total_archived
               /\ calls' = calls
               /\ unread' = unread]_vars
    /\ [][pc = "failed"
            => UNCHANGED <<pc, idx, offset, calls, unread, total_archived>>]_vars

\* the run died on an unparseable entry with an id collected and a page to go
C6_Witness ==
    /\ pc = "failed" /\ error = "ParserError"
    /\ to_archive # <<>>
    /\ offset + batch_size < total_entries
    /\ \E k \in 1..Len(rules) : "age_days" \in DOMAIN rules[k]

(***************************************************************************)
(* C7. The category filter is a case-insensitive substring match: a rule   *)
(* with categories whose other conditions hold matches the entry exactly   *)
(* when some configured category, lowercased, is contained in the entry's  *)
(* feed category, lowercased; an entry with no category does not match.    *)
(***************************************************************************)
CategoryContains(entry, rule) ==
    \E i \in 1..Len(rule.categories) :
        Contains(Lower(rule.categories[i]), Lower(Get(entry.feed, "category", <<>>)))

\* the rule would match the entry if it did not carry the field k
HoldsWithout(entry, rule, k) ==
    should_archive(entry, Without(rule, k), feed_names, now) = "True"

C7_CategorySubstringMatch ==
    ( /\ Len(rules) = 1 /\ Truthy(rules[1], "categories")
      /\ Attempted(1)
      /\ HoldsWithout(entries[1], rules[1], "categories") )
    => /\ Evaluated(1)
       /\ Archived(1) <=> CategoryContains(entries[1], rules[1])

(***************************************************************************)
(* C8. A rule with exclude_feeds never archives an entry whose feed name   *)
(* (looked up in the feed directory by feed id) contains, ignoring case,   *)
(* one of the exclude patterns, whatever its other conditions say; and     *)
(* when the rule is evaluated to the end, its answer is False.             *)
(***************************************************************************)
DirectoryName(entry) ==
    IF entry.feed_id \in DOMAIN feed_names THEN feed_names[entry.feed_id] ELSE <<>>

NameHasExcludePattern(entry, rule) ==
    \E i \in 1..Len(rule.exclude_feeds) :
        Contains(Lower(rule.exclude_feeds[i]), Lower(DirectoryName(entry)))

ExcludeCase ==
    /\ Len(rules) = 1 /\ Truthy(rules[1], "exclude_feeds")
    /\ Attempted(1)
    /\ NameHasExcludePattern(entries[1], rules[1])

Matching(entry) ==
    {k \in 1..Len(rules) : should_archive(entry, rules[k], feed_names, now) = "True"}

MinOf(S) == CHOOSE k \in S : \A m \in S : k <= m

C9_OutcomeIgnoresRuleOrder ==
    (Attempted(1) /\ ~Unparseable(entries[1]))
    => /\ (Evaluated(1) /\ Archived(1)) <=> Matching(entries[1]) # {}
       /\ (Evaluated(1) /\ Archived(1))
          => will_log[1].reason
               = reason_of(entries[1], rules[MinOf(Matching(entries[1]))], now)

(***************************************************************************)
(* C10. A page fetched at an offset below the captured total that comes    *)
(* back empty ends the run without error: nothing more is fetched or       *)
(* updated, and the reported total is what the earlier offsets added up.   *)
(***************************************************************************)
C10_EmptyPageEndsRun ==
    /\ [](pc = "fetch" => offset < total_entries)
    /\ [][( /\ pc = "fetch" /\ calls' # calls /\ Last(calls').ok
            /\ get_entries(batch_size, offset).entries = <<>> )
            => /\ pc' = "done"
               /\ error' = ""
               /\ total_archived' = total_archived
               /\ Last(reports').outcome = "done"
               /\ Last(reports').total = total_archived]_vars
    /\ [][pc = "done"
            => UNCHANGED <<pc, calls, unread, total_archived, reports>>]_vars

\* the run ended on an empty page at a later offset, reporting the first page
C10_Witness ==
    /\ pc = "done" /\ error = ""
    /\ Last(calls).op = "get_entries" /\ Last(calls).ok
    /\ Last(calls).offset = offset /\ Last(calls).limit = batch_size
    /\ 0 < offset /\ offset < total_entries
    /\ total_archived > 0
    /\ Last(reports).total = total_archived

(***************************************************************************)
(* C11. A configuration holding a rule with neither age_days nor           *)
(* reading_time_min is rejected when the rule is constructed: the process  *)
(* ends with ValueError before any call to the reader service, no          *)
(* get_feeds, no get_entries, no update_entries, and the server keeps      *)
(* every entry.                                                            *)
(***************************************************************************)
HasEmptyRule(cfg) ==
    \E i \in 1..Len(cfg) :
        "age_days" \notin DOMAIN cfg[i] /\ "reading_time_min" \notin DOMAIN cfg[i]

C11_EmptyRuleAbortsBeforeAnyCall ==
    /\ [](HasEmptyRule(config) => calls = <<>> /\ unread = started)
    /\ [](HasEmptyRule(config) => pc \in {"idle", "failed"})
    /\ [][(HasEmptyRule(config) /\ pc = "idle" /\ pc' # pc)
            => /\ pc' = "failed"
               /\ error' = "ValueError"
               /\ Last(reports').outcome = "ValueError"
               /\ Last(reports').total = 0]_vars

\* the process was started on a server with unread entries and a rule
\* without a threshold, and has ended
C11_Witness ==
    /\ HasEmptyRule(config)
    /\ pc = "failed" /\ error = "ValueError"
    /\ calls = <<>>
    /\ unread # <<>>

(***************************************************************************)
(* C12. Under a rule with only reading_time_min = M set, an entry is       *)
(* archived if and only if its reading time is below M; an entry without   *)
(* reading-time data counts as reading_time = 0. The rule never raises.    *)
(***************************************************************************)
OnlyReadingTimeRule == Len(rules) = 1 /\ DOMAIN rules[1] = {"reading_time_min"}

C12_ArchivedIffShorterThanMin ==
    OnlyReadingTimeRule =>
        /\ Attempted(1) => Evaluated(1)
        /\ Evaluated(1) =>
              (Archived(1) <=>
                  (IF "reading_time" \in DOMAIN entries[1]
                   THEN entries[1].reading_time ELSE 0) < rules[1].reading_time_min)

\* an entry without reading-time data was archived by the rule
C12_Witness ==
    /\ OnlyReadingTimeRule
    /\ Evaluated(1)
    /\ "reading_time" \notin DOMAIN entries[1]
    /\ Archived(1)

(***************************************************************************)
(* C13. In a run without --dry-run, with no other client changing the      *)
(* server and no error, every entry that was unread when the run started   *)
(* and matches at least one rule has been marked read when the run ends.   *)
(***************************************************************************)
\* the entry satisfies one of the rules of the run, judged at the clock of
\* the run
MatchesAtEnd(entry) ==
    \E k \in 1..Len(rules) : should_archive(entry, rules[k], feed_names, now) = "True"

C13_EveryMatchingEntryMarkedRead ==
    ( /\ pc = "done" /\ error = ""
      /\ ~dry_run
      /\ externals = 0
      /\ now = StartNow )
    => \A i \in 1..Len(started) :
           MatchesAtEnd(started[i]) => started[i].id \notin Ids(unread)

(***************************************************************************)
(* C14. Across pages the calls are strictly sequential: the update_entries *)
(* call for the page at offset k, when one is issued, directly follows the *)
(* fetch of that page and has completed before the page at                 *)
(* k + batch_size is fetched; the pages are fetched at offsets             *)
(* 0, batch_size, 2 * batch_size, ... in this order, so none is fetched    *)
(* twice.                                                                  *)
(***************************************************************************)
IsPageFetch(c) == c.op = "get_entries" /\ c.limit = batch_size

PageFetches == SelectSeq(calls, IsPageFetch)

C14_CallsSequentialNoPageTwice ==
    /\ [](\A j \in 1..Len(PageFetches) :
             PageFetches[j].offset = (j - 1) * batch_size)
    /\ [](\A i \in 1..Len(calls) : IsUpdate(calls[i]) =>
             /\ i > 1
             /\ IsPageFetch(calls[i - 1]) /\ calls[i - 1].ok
             /\ calls[i - 1].offset = calls[i].offset
             /\ \A j \in (i + 1)..Len(calls) :
                    /\ calls[i].ok
                    /\ calls[j].offset >= calls[i].offset + batch_size)
    /\ [][(calls' # calls /\ pc # "idle")
            => /\ Len(calls') = Len(calls) + 1
               /\ SubSeq(calls', 1, Len(calls)) = calls
               /\ \A i \in 1..Len(calls) : calls[i].ok]_vars

\* two pages were fetched and each was followed by its update
C14_Witness ==
    /\ Len(PageFetches) = 2
    /\ \E i, j \in 1..Len(calls) :
          /\ i < j
          /\ IsUpdate(calls[i]) /\ calls[i].offset = 0
          /\ IsUpdate(calls[j]) /\ calls[j].offset = batch_size

(***************************************************************************)
(* C15. The unread total is read once, by the limit=1 call, and never      *)
(* queried again: whatever other clients add to or remove from the unread  *)
(* list during the run, the pages are fetched at offsets 0, batch_size,    *)
(* 2 * batch_size, ... below the captured total, at most                   *)
(* ceil(total / batch_size) of them, and the run goes on until it ends.    *)
(***************************************************************************)
IsProbe(c) == c.op = "get_entries" /\ c.limit = 1

Running == pc \in {"probe", "fetch", "eval", "page_end"}

\* what is left of the run: the offsets still to visit weigh more than a
\* whole page of steps, the entries still to evaluate one step each
Rank ==
    LET weight == batch_size + 3
    IN  CASE pc = "probe"    -> Len(unread) * weight + batch_size + 3
          [] pc = "fetch"    -> (total_entries - offset) * weight + batch_size + 2
          [] pc = "eval"     -> (total_entries - offset) * weight
                                    + (Len(entries) - idx) + 2
          [] pc = "page_end" -> (total_entries - offset) * weight
          [] OTHER           -> 0

C15_PagesBoundedByCapturedTotal ==
    /\ [](Len(SelectSeq(calls, IsProbe)) <= 1)
    /\ [][(pc = "fetch" \/ pc = "eval" \/ pc = "page_end")
            => total_entries' = total_entries]_vars
    /\ [][(pc = "probe" /\ calls' # calls /\ Last(calls').ok)
            => total_entries' = Len(unread)]_vars
    /\ [](\A j \in 1..Len(PageFetches) :
             /\ PageFetches[j].offset = (j - 1) * batch_size
             /\ PageFetches[j].offset < total_entries)
    /\ [](Len(PageFetches) * batch_size < total_entries + batch_size)
    /\ [](Running => ENABLED (Probe \/ FetchPage \/ EvalEntry \/ PageEnd))
    /\ [](Running => Rank >= 0)
    /\ [][(Running /\ Running' /\ (pc' # pc \/ idx' # idx)) => Rank' < Rank]_vars

\* another client added an entry after the total was captured, and the run
\* ended after the pages of the captured total
C15_Witness ==
    /\ pc = "done"
    /\ externals > 0
    /\ Len(unread) > total_entries
    /\ total_entries > batch_size
    /\ Len(PageFetches) * batch_size >= total_entries

(***************************************************************************)
(* C17. The feed directory is built by a single get_feeds call when the    *)
(* Archiver is constructed and is unchanged by every later step of run:    *)
(* no page fetch, evaluation or update changes it or lists the feeds       *)
(* again.                                                                  *)
(***************************************************************************)
IsFeedListing(c) == c.op = "get_feeds"

C17_FeedDirectoryBuiltOnce ==
    /\ [](calls # <<>> =>
             /\ IsFeedListing(calls[1])
             /\ \A i \in 2..Len(calls) : ~IsFeedListing(calls[i]))
    /\ [](Running =>
             feed_names = [i \in {1, 2} |-> ServiceFeeds[i].title])
    /\ [][(pc # "idle" /\ pc' # "probe") => feed_names' = feed_names]_vars

\* a run fetched two pages and updated the server, with one feed listing
C17_Witness ==
    /\ pc = "done"
    /\ Len(PageFetches) = 2
    /\ \E i \in 1..Len(calls) : IsUpdate(calls[i])
    /\ Len(SelectSeq(calls, IsFeedListing)) = 1
    /\ DOMAIN feed_names = {1, 2}

(***************************************************************************)
(* C18. Within one page, whose entries are distinct, an entry id appears   *)
(* at most once in the id list passed to update_entries and is counted at  *)
(* most once in the total, even when several rules match the entry.        *)
(***************************************************************************)
NoDuplicates(seq) == Cardinality(Range(seq)) = Len(seq)

\* how many rules the entry at position i of the page satisfies
RulesMatching(i) ==
    Cardinality({k \in 1..Len(rules) :
        should_archive(entries[i], rules[k], feed_names, clock_read[i]) = "True"})

C18_EntryCollectedOnce ==
    /\ [](Cardinality(Ids(entries)) = Len(entries))
    /\ [](Running => NoDuplicates(to_archive))
    /\ [](Running => Range(to_archive) \subseteq Ids(entries))
    /\ [](\A i \in 1..Len(calls) : IsUpdate(calls[i]) => NoDuplicates(calls[i].ids))
    /\ [][(pc = "page_end" /\ pc' # "failed" /\ pc' # pc)
            => /\ total_archived' = total_archived + Cardinality(Range(to_archive))
               /\ (calls' # calls => Last(calls').ids = to_archive)]_vars

\* an entry that two rules match was collected in a page of two entries
C18_Witness ==
    /\ pc = "page_end"
    /\ Len(entries) = 2
    /\ \E i \in 1..Len(entries) : RulesMatching(i) >= 2 /\ Archived(i)

(***************************************************************************)
(* C16. In send_to_readwise_api a batch answered with HTTP 429 is retried  *)
(* after the wait: the next request carries the same batch; and the        *)
(* function returns True only when every item was in a batch accepted      *)
(* with a 200 answer.                                                      *)
(***************************************************************************)
Accepted ==
    UNION {Range(posts[k].batch) : k \in {j \in 1..Len(posts) : posts[j].status = 200}}

C16_RateLimitedBatchRetried ==
    /\ \A k \in 1..(Len(posts) - 1) :
          posts[k].status = 429 => posts[k + 1].batch = posts[k].batch
    /\ (send_pc = "returned" /\ returned = "True") => Range(items) \subseteq Accepted

====
